---------------------------- MODULE Spec2Model ----------------------------
(***************************************************************************)
(* PubMed Papers Fetcher (src/main.py): the fetch / parse / classify /     *)
(* filter / write pipeline of main and of class PubMedFetcher.             *)
(*                                                                         *)
(* Text is modelled by TLA+ strings, on which TLC evaluates Len, \o and    *)
(* SubSeq; a one-character string stands for a character.  An optional XML *)
(* child element is a sequence of length 0 (find() returned None) or 1     *)
(* (the element's text, "" when the element has no text).  A function that *)
(* returns a list built from a Python set is modelled by the set of the    *)
(* lists it may return, the order being the hash seed's choice.            *)
(*                                                                         *)
(* Not modelled: the title (_get_text_content) and the corresponding       *)
(* e-mail (_extract_corresponding_email) columns of a row.  Both are pure  *)
(* functions of the article whose value no other operation reads.          *)
(***************************************************************************)
EXTENDS Integers, Sequences, FiniteSets, TLC

VARIABLES
    pc,                    \* position of the routine that is running
    authors,               \* argument of _identify_non_academic_authors
    company_affiliations,  \* value returned by _identify_company_affiliations
    non_academic_authors,  \* value returned by _identify_non_academic_authors
    article_elem,          \* one PubmedArticle element, the argument of the extractors
    pub_date,              \* value returned by _extract_publication_date
    paper,                 \* value returned by _extract_paper_info: <<>> is None
    xml_content,           \* argument of _parse_paper_details
    papers,                \* value returned by _parse_paper_details
    search_response,       \* what the search request of main met
    pmids,                 \* main: the identifiers search_papers returned
    i,                     \* fetch_paper_details: the loop index
    all_papers,            \* fetch_paper_details: the rows collected so far
    requests,              \* the batches requested from the fetch endpoint, in order
    responses,             \* what each of these requests met, in order
    sleeps,                \* the batches (by position) after which time.sleep ran
    write_csv_calls,       \* the arguments of the calls of write_csv, in order
    csv_file,              \* the output file: <<>> not written, <<rows>> its data rows
    exit_code              \* value returned by main: <<>> while it runs

classifyVars == <<authors, company_affiliations, non_academic_authors>>
extractVars == <<article_elem, pub_date, paper>>
parseVars == <<xml_content, papers>>
fetchVars == <<pmids, i, all_papers, requests, responses, sleeps>>
mainVars == <<search_response, fetchVars, write_csv_calls, csv_file, exit_code>>

vars == <<pc, classifyVars, extractVars, parseVars, mainVars>>

---------------------------------------------------------------------------
(* Bounds of the model.                                                    *)

MaxAuthors == 2     \* authors of one article
MaxAffs == 2        \* affiliation strings of one article, all authors together
MaxDateElems == 2   \* date-bearing elements present in one article
MaxRecords == 3     \* PubmedArticle elements of one parsed document
MaxArticles == 1    \* PubmedArticle elements of one fetch response
MaxIds == 450       \* identifiers the search returns

---------------------------------------------------------------------------
(* Python's str operations.                                                *)

UPPER == "ABCDEFGHIJKLMNOPQRSTUVWXYZ"
LOWER == "abcdefghijklmnopqrstuvwxyz"
WHITESPACE == {" ", "\t", "\n", "\r", "\f"}

\* c.lower() of one character
lower_char(c) ==
    IF \E k \in 1..Len(UPPER) : SubSeq(UPPER, k, k) = c
    THEN LET k == CHOOSE k \in 1..Len(UPPER) : SubSeq(UPPER, k, k) = c
         IN  SubSeq(LOWER, k, k)
    ELSE c

\* s.lower()
RECURSIVE lower(_)
lower(s) ==
    IF s = "" THEN ""
    ELSE lower_char(SubSeq(s, 1, 1)) \o lower(SubSeq(s, 2, Len(s)))

\* s.lstrip(), s.rstrip(), s.strip()
RECURSIVE lstrip(_)
lstrip(s) ==
    IF s /= "" /\ SubSeq(s, 1, 1) \in WHITESPACE
    THEN lstrip(SubSeq(s, 2, Len(s)))
    ELSE s

RECURSIVE rstrip(_)
rstrip(s) ==
    IF s /= "" /\ SubSeq(s, Len(s), Len(s)) \in WHITESPACE
    THEN rstrip(SubSeq(s, 1, Len(s) - 1))
    ELSE s

strip(s) == rstrip(lstrip(s))

\* sub in s
str_in(sub, s) ==
    \E k \in 1..(Len(s) - Len(sub) + 1) : SubSeq(s, k, k + Len(sub) - 1) = sub

\* sep.join(parts)
RECURSIVE join(_, _)
join(sep, parts) ==
    IF parts = <<>> THEN ""
    ELSE IF Len(parts) = 1 THEN parts[1]
    ELSE parts[1] \o sep \o join(sep, Tail(parts))

\* list(s) of a set s: every element once, in an order the hash seed decides
list_of_set(s) ==
    {l \in [1..Cardinality(s) -> s] : \A a, b \in DOMAIN l : a /= b => l[a] /= l[b]}

---------------------------------------------------------------------------
(* class PubMedFetcher: the affiliation classifier.                        *)

PHARMA_BIOTECH_COMPANIES == {
    "pfizer", "moderna", "johnson & johnson", "merck", "abbott", "roche",
    "novartis", "gsk", "glaxosmithkline", "sanofi", "bristol myers squibb",
    "astrazeneca", "eli lilly", "gilead", "amgen", "biogen", "regeneron",
    "vertex", "genentech", "takeda", "bayer", "boehringer ingelheim",
    "celgene", "abbvie", "illumina", "thermo fisher", "danaher",
    "agilent", "waters", "applied biosystems", "life technologies",
    "bio-rad", "qiagen", "promega", "new england biolabs", "neb",
    "invitrogen", "sigma-aldrich", "merck kgaa", "eppendorf",
    "beckman coulter", "bd", "becton dickinson", "medtronic",
    "stryker", "boston scientific", "edwards lifesciences",
    "intuitive surgical", "zimmer biomet", "smith & nephew",
    "pharmaceutical", "pharmaceuticals", "biotech", "biotechnology",
    "biopharmaceutical", "biopharmaceuticals", "drug development",
    "therapeutics", "pharma", "inc.", "corp.", "corporation",
    "company", "ltd.", "limited", "sa", "ag", "gmbh" }

ACADEMIC_KEYWORDS ==
    {"university", "college", "school", "institute", "department", "center", "centre"}

\* company_loop matching the affiliation as written, not lowercased
RECURSIVE company_loop_case_sensitive(_, _)
company_loop_case_sensitive(affiliations, found) ==
    IF affiliations = <<>> THEN found
    ELSE LET affiliation == Head(affiliations)
         IN  company_loop_case_sensitive(Tail(affiliations),
                 IF \E company \in PHARMA_BIOTECH_COMPANIES :
                        str_in(company, affiliation)
                 THEN found \cup {strip(affiliation)}
                 ELSE found)

\* the loop of _identify_company_affiliations over the affiliations still to
\* visit; found is the set built so far
RECURSIVE company_loop(_, _)
company_loop(affiliations, found) ==
    IF affiliations = <<>> THEN found
    ELSE LET affiliation == Head(affiliations)
             affiliation_lower == lower(affiliation)
         IN  company_loop(Tail(affiliations),
                 IF \E company \in PHARMA_BIOTECH_COMPANIES :
                        str_in(company, affiliation_lower)
                 THEN found \cup {strip(affiliation)}
                 ELSE found)

\* the lists _identify_company_affiliations may return
_identify_company_affiliations(affiliations) ==
    list_of_set(company_loop(affiliations, {}))

\* is_non_academic with the academic exclusion scoped to the author: any
\* affiliation with an academic keyword excludes the author
is_non_academic_per_author(affiliations) ==
    /\ \E k \in DOMAIN affiliations :
          \E keyword \in PHARMA_BIOTECH_COMPANIES :
             str_in(keyword, lower(affiliations[k]))
    /\ ~ \E k \in DOMAIN affiliations :
          \E academic_keyword \in ACADEMIC_KEYWORDS :
             str_in(academic_keyword, lower(affiliations[k]))

\* the inner loop of _identify_non_academic_authors: is_non_academic of one
\* author, the loop breaking at the first affiliation that qualifies
RECURSIVE is_non_academic(_)
is_non_academic(affiliations) ==
    IF affiliations = <<>> THEN FALSE
    ELSE LET affiliation_lower == lower(Head(affiliations))
         IN  IF /\ \E keyword \in PHARMA_BIOTECH_COMPANIES :
                        str_in(keyword, affiliation_lower)
                /\ ~ \E academic_keyword \in ACADEMIC_KEYWORDS :
                        str_in(academic_keyword, affiliation_lower)
             THEN TRUE
             ELSE is_non_academic(Tail(affiliations))

RECURSIVE _identify_non_academic_authors(_)
_identify_non_academic_authors(authors_list) ==
    IF authors_list = <<>> THEN <<>>
    ELSE LET author == Head(authors_list)
             rest == _identify_non_academic_authors(Tail(authors_list))
         IN  IF is_non_academic(author.affiliations)
             THEN <<author.name>> \o rest
             ELSE rest

---------------------------------------------------------------------------
(* class PubMedFetcher: the record extractor.  A PubmedArticle element is  *)
(* a record: PMID (optional text), date (each date-bearing element, by     *)
(* tag: absent, or its Year, Month and Day children, each optional text),  *)
(* AuthorList (absent, or the Author elements) and raises (whether a step  *)
(* of the extraction of this element raises an exception).                 *)

date_fields == <<"PubDate", "ArticleDate", "DateCompleted", "DateRevised">>

\* date_loop returning at the first date element present, with or without
\* parts
RECURSIVE date_loop_first_element(_, _)
date_loop_first_element(elem, fields) ==
    IF fields = <<>> THEN ""
    ELSE LET date_elem == elem.date[Head(fields)]
         IN  IF date_elem /= <<>>
             THEN LET year == date_elem[1].Year
                      month == date_elem[1].Month
                      day == date_elem[1].Day
                  IN  join("-",
                          (IF year /= <<>> /\ year[1] /= "" THEN <<year[1]>> ELSE <<>>)
                          \o (IF month /= <<>> /\ month[1] /= "" THEN <<month[1]>> ELSE <<>>)
                          \o (IF day /= <<>> /\ day[1] /= "" THEN <<day[1]>> ELSE <<>>))
             ELSE date_loop_first_element(elem, Tail(fields))

\* the loop of _extract_publication_date over the date fields still to try
RECURSIVE date_loop(_, _)
date_loop(elem, fields) ==
    IF fields = <<>> THEN ""
    ELSE LET date_elem == elem.date[Head(fields)]
         IN  IF date_elem /= <<>>
             THEN LET year == date_elem[1].Year
                      month == date_elem[1].Month
                      day == date_elem[1].Day
                      date_parts ==
                          (IF year /= <<>> /\ year[1] /= "" THEN <<year[1]>> ELSE <<>>)
                          \o (IF month /= <<>> /\ month[1] /= "" THEN <<month[1]>> ELSE <<>>)
                          \o (IF day /= <<>> /\ day[1] /= "" THEN <<day[1]>> ELSE <<>>)
                  IN  IF date_parts /= <<>>
                      THEN join("-", date_parts)
                      ELSE date_loop(elem, Tail(fields))
             ELSE date_loop(elem, Tail(fields))

_extract_publication_date(elem) == date_loop(elem, date_fields)

\* the inner loop of _extract_authors_info: the stripped texts of the
\* Affiliation elements that have a text
RECURSIVE affiliation_texts(_)
affiliation_texts(affiliation_elems) ==
    IF affiliation_elems = <<>> THEN <<>>
    ELSE LET text == Head(affiliation_elems)
         IN  (IF text /= "" THEN <<strip(text)>> ELSE <<>>)
             \o affiliation_texts(Tail(affiliation_elems))

\* authors_loop adding to all_affiliations after the inner loop: only the
\* last affiliation of each author reaches the record-wide list
RECURSIVE authors_loop_last_affiliation(_)
authors_loop_last_affiliation(author_elems) ==
    IF author_elems = <<>> THEN [authors |-> <<>>, all_affiliations |-> <<>>]
    ELSE LET author == Head(author_elems)
             lastname == author.LastName
             forename == author.ForeName
             rest == authors_loop_last_affiliation(Tail(author_elems))
         IN  IF lastname /= <<>> /\ lastname[1] /= ""
             THEN LET author_name ==
                          IF forename /= <<>> /\ forename[1] /= ""
                          THEN forename[1] \o " " \o lastname[1]
                          ELSE lastname[1]
                      author_affiliations == affiliation_texts(author.Affiliation)
                  IN  [authors |->
                           <<[name |-> author_name,
                              affiliations |-> author_affiliations]>> \o rest.authors,
                       all_affiliations |->
                           (IF author_affiliations = <<>> THEN <<>>
                            ELSE <<author_affiliations[Len(author_affiliations)]>>)
                           \o rest.all_affiliations]
             ELSE rest

\* the loop of _extract_authors_info over the Author elements still to visit
RECURSIVE authors_loop(_)
authors_loop(author_elems) ==
    IF author_elems = <<>> THEN [authors |-> <<>>, all_affiliations |-> <<>>]
    ELSE LET author == Head(author_elems)
             lastname == author.LastName
             forename == author.ForeName
             rest == authors_loop(Tail(author_elems))
         IN  IF lastname /= <<>> /\ lastname[1] /= ""
             THEN LET author_name ==
                          IF forename /= <<>> /\ forename[1] /= ""
                          THEN forename[1] \o " " \o lastname[1]
                          ELSE lastname[1]
                      author_affiliations == affiliation_texts(author.Affiliation)
                  IN  [authors |->
                           <<[name |-> author_name,
                              affiliations |-> author_affiliations]>> \o rest.authors,
                       all_affiliations |->
                           author_affiliations \o rest.all_affiliations]
             ELSE rest

_extract_authors_info(elem) ==
    IF elem.AuthorList /= <<>>
    THEN authors_loop(elem.AuthorList[1])
    ELSE [authors |-> <<>>, all_affiliations |-> <<>>]

\* the values _extract_paper_info may return: <<>> is None, <<row>> a row.
\* Beside its columns a row keeps the two lists the columns are joined from.
_extract_paper_info(elem) ==
    IF elem.raises THEN {<<>>}
    ELSE LET pmid == IF elem.PMID /= <<>> THEN elem.PMID[1] ELSE ""
             date == _extract_publication_date(elem)
             authors_info == _extract_authors_info(elem)
             non_academic == _identify_non_academic_authors(authors_info.authors)
         IN  {<<[PubmedID |-> pmid,
                 Publication_Date |-> date,
                 Non_academic_Authors |-> join("; ", non_academic),
                 Company_Affiliations |-> join("; ", company),
                 non_academic_authors |-> non_academic,
                 company_affiliations |-> company]>> :
                company \in _identify_company_affiliations(authors_info.all_affiliations)}

\* parse_loop with the exception caught around the loop, not in it: the
\* first element whose extraction raises ends the loop
RECURSIVE parse_loop_aborting(_)
parse_loop_aborting(articles) ==
    IF articles = <<>> THEN {<<>>}
    ELSE IF Head(articles).raises THEN {<<>>}
    ELSE {got \o rest : got \in _extract_paper_info(Head(articles)),
                        rest \in parse_loop_aborting(Tail(articles))}

\* the loop of _parse_paper_details over the PubmedArticle elements still
\* to visit: the lists it may build
RECURSIVE parse_loop(_)
parse_loop(articles) ==
    IF articles = <<>> THEN {<<>>}
    ELSE {got \o rest : got \in _extract_paper_info(Head(articles)),
                        rest \in parse_loop(Tail(articles))}

\* the lists _parse_paper_details may return; xml_content is well formed
\* or not (ET.ParseError) and holds the PubmedArticle elements
_parse_paper_details(content) ==
    IF content.wellformed THEN parse_loop(content.articles) ELSE {<<>>}

---------------------------------------------------------------------------
(* class PubMedFetcher: the fetch pipeline; write_csv; main's filter.      *)

\* search_papers: the identifier list of the response, [] when the request
\* raised RequestException or the body raised ET.ParseError
search_papers(response) ==
    IF response.error = "none" THEN response.ids ELSE <<>>

batch_size == 200

Min(a, b) == IF a < b THEN a ELSE b

\* pmids[i:i + batch_size]
batch_of(ids, k) == SubSeq(ids, k + 1, Min(k + batch_size, Len(ids)))

\* sleeps_after with <= for <
sleeps_after_inclusive(k, n) == k + batch_size <= n

\* the guard of time.sleep(0.5) after the batch at index k
sleeps_after(k, n) == k + batch_size < n

\* the lists _fetch_batch_details may return.  A body that does not parse
\* is caught inside _parse_paper_details, which then returns [].
_fetch_batch_details(response) ==
    IF response.error = "RequestException" THEN {<<>>}
    ELSE _parse_paper_details(response.content)

\* keeps with and for or
keeps_both(row) == row.Company_Affiliations /= "" /\ row.Non_academic_Authors /= ""

\* main's filter: the truth value of a str is its being non-empty
keeps(row) == row.Company_Affiliations /= "" \/ row.Non_academic_Authors /= ""

filtered(rows) == SelectSeq(rows, keeps)

\* write_csv: the states it may leave the output file in.  Nothing is
\* written for an empty list.  Otherwise all rows are written, or IOError
\* is caught: raised by open() the file is as before, raised later the file
\* is truncated and holds a proper prefix of the rows.
write_csv(rows, file) ==
    IF rows = <<>> THEN {file}
    ELSE {<<rows>>, file} \cup {<<SubSeq(rows, 1, k)>> : k \in 0..(Len(rows) - 1)}

---------------------------------------------------------------------------
(* The inputs of the classifier.                                           *)

\* affiliation texts as they may reach the classifier
AffTexts == {
    "Pfizer Inc.",
    "pfizer inc.",
    " Roche AG\n",
    "Roche AG",
    "School of Pharmacy",
    "Harvard University",
    "City Clinic" }

AuthorNames == <<"Jane Doe", "Smith", "Ana Ruiz", "Lee">>

NameOf(k) == AuthorNames[((k - 1) % Len(AuthorNames)) + 1]

RECURSIVE Sum(_, _)
Sum(f, n) == IF n = 0 THEN 0 ELSE f[n] + Sum(f, n - 1)

SeqsUpTo(S, n) == UNION {[1..k -> S] : k \in 0..n}

\* the author lists that share out the affiliation list flat, sizes[k] to
\* author k
AuthorsOf(flat, sizes) ==
    [k \in DOMAIN sizes |->
        [name |-> NameOf(k),
         affiliations |-> SubSeq(flat, Sum(sizes, k - 1) + 1, Sum(sizes, k))]]

\* sizes shares out the affiliation list flat among the authors
SharesOut(sizes, flat) == Sum(sizes, Len(sizes)) = Len(flat)

\* the affiliations of all these authors, in order: the argument main's
\* pipeline passes to _identify_company_affiliations
RECURSIVE AllAffiliations(_)
AllAffiliations(authors_list) ==
    IF authors_list = <<>> THEN <<>>
    ELSE Head(authors_list).affiliations \o AllAffiliations(Tail(authors_list))

---------------------------------------------------------------------------
(* The inputs of _extract_publication_date.                                *)

Range(f) == {f[x] : x \in DOMAIN f}

\* the texts the Year, Month and Day children of each date element carry
YearText == [f \in Range(date_fields) |->
    CASE f = "PubDate" -> "2023" [] f = "ArticleDate" -> "2022"
      [] f = "DateCompleted" -> "2024" [] OTHER -> "2025"]
MonthText == [f \in Range(date_fields) |->
    CASE f = "PubDate" -> "05" [] f = "ArticleDate" -> "04"
      [] f = "DateCompleted" -> "06" [] OTHER -> "07"]
DayText == [f \in Range(date_fields) |->
    CASE f = "PubDate" -> "17" [] f = "ArticleDate" -> "16"
      [] f = "DateCompleted" -> "18" [] OTHER -> "19"]

\* an optional child: absent, present without text, present with a text
Shape == {"absent", "empty", "text"}

ChildOf(shape, text) ==
    CASE shape = "absent" -> <<>> [] shape = "empty" -> <<"">> [] OTHER -> <<text>>

DateElem(f, s) ==
    <<[Year |-> ChildOf(s[1], YearText[f]),
       Month |-> ChildOf(s[2], MonthText[f]),
       Day |-> ChildOf(s[3], DayText[f])]>>

NoDates == [f \in Range(date_fields) |-> <<>>]

\* the date elements of an article: those of the tags in present, of the
\* shapes s
DatesOf(present, s) ==
    [f \in Range(date_fields) |-> IF f \in present THEN DateElem(f, s[f]) ELSE <<>>]

---------------------------------------------------------------------------
(* The inputs of the record extractor and the answers of the service.      *)

PubDate2023_05 ==
    [f \in Range(date_fields) |->
        IF f = "PubDate" THEN DateElem(f, <<"text", "text", "absent">>) ELSE <<>>]

\* Affiliation texts as the document holds them; "" is an element without text
RawTexts == {" Pfizer Inc.\n", "School of Pharmacy", "City Clinic", ""}

\* the LastName and ForeName children of an Author element
NameKinds == {
    [LastName |-> <<>>, ForeName |-> <<"Jane">>],
    [LastName |-> <<"">>, ForeName |-> <<>>],
    [LastName |-> <<"Doe">>, ForeName |-> <<"">>],
    [LastName |-> <<"Doe">>, ForeName |-> <<"Jane">>] }

AuthorElemsOf(flat, sizes, kinds) ==
    [k \in DOMAIN sizes |->
        [LastName |-> kinds[k].LastName,
         ForeName |-> kinds[k].ForeName,
         Affiliation |-> SubSeq(flat, Sum(sizes, k - 1) + 1, Sum(sizes, k))]]

Article(pmid, author_list) ==
    [PMID |-> <<pmid>>, date |-> PubDate2023_05,
     AuthorList |-> author_list, raises |-> FALSE]

Raising(elem) == [elem EXCEPT !.raises = TRUE]

\* three articles: an industry author; an academic author whose affiliation
\* names an industry term; an academic author
ArticlePfizer ==
    Article("101", <<
        <<[LastName |-> <<"Doe">>, ForeName |-> <<"Jane">>,
           Affiliation |-> <<"Pfizer Inc., New York, jane.doe@pfizer.com">>]>> >>)

ArticlePharmacy ==
    Article("102", <<
        <<[LastName |-> <<"Smith">>, ForeName |-> <<>>,
           Affiliation |-> <<"School of Pharmacy">>]>> >>)

ArticleHarvard ==
    Article("103", <<
        <<[LastName |-> <<"Ruiz">>, ForeName |-> <<"Ana">>,
           Affiliation |-> <<"Department of Biology, Harvard University">>]>> >>)

ArticlePool == {ArticlePfizer, ArticlePharmacy, ArticleHarvard}

\* the inputs of _parse_paper_details
ParseInputs ==
    {[wellformed |-> FALSE, articles |-> <<>>]}
    \cup {[wellformed |-> TRUE, articles |-> a] :
             a \in SeqsUpTo(ArticlePool \cup {Raising(e) : e \in ArticlePool}, MaxRecords)}

\* what a request to the search endpoint may meet
FoundCounts ==
    (0..2) \cup {k * batch_size + d : k \in 1..2, d \in {-1, 0, 1}} \cup {MaxIds}

SearchResponses ==
    {[error |-> e, ids |-> <<>>] : e \in {"RequestException", "ParseError"}}
    \cup {[error |-> "none", ids |-> [k \in 1..n |-> k]] : n \in FoundCounts}

\* what a request to the fetch endpoint may meet
FetchResponses ==
    {[error |-> "RequestException", content |-> [wellformed |-> FALSE, articles |-> <<>>]],
     [error |-> "none", content |-> [wellformed |-> FALSE, articles |-> <<>>]]}
    \cup {[error |-> "none", content |-> [wellformed |-> TRUE, articles |-> a]] :
             a \in SeqsUpTo(ArticlePool \cup {Raising(ArticleHarvard)}, MaxArticles)}

---------------------------------------------------------------------------
(* The values of the variables a specification does not use.               *)

ClassifyIdle ==
    /\ authors = <<>>
    /\ company_affiliations = <<>>
    /\ non_academic_authors = <<>>

ExtractIdle ==
    /\ article_elem = <<>>
    /\ pub_date = ""
    /\ paper = <<>>

ParseIdle ==
    /\ xml_content = <<>>
    /\ papers = <<>>

MainIdle ==
    /\ search_response = <<>>
    /\ pmids = <<>>
    /\ i = 0
    /\ all_papers = <<>>
    /\ requests = <<>>
    /\ responses = <<>>
    /\ sleeps = <<>>
    /\ write_csv_calls = <<>>
    /\ csv_file = <<>>
    /\ exit_code = <<>>

---------------------------------------------------------------------------
(* SpecClassify: the classifier applied to one author list, as lines       *)
(* 159-160 of _extract_paper_info apply it.                                *)

InitClassify ==
    /\ pc = "classify"
    /\ \E flat \in SeqsUpTo(AffTexts, MaxAffs) :
         \E sizes \in SeqsUpTo(0..MaxAffs, MaxAuthors) :
            /\ SharesOut(sizes, flat)
            /\ authors = AuthorsOf(flat, sizes)
    /\ company_affiliations = <<>>
    /\ non_academic_authors = <<>>
    /\ ExtractIdle /\ ParseIdle /\ MainIdle

IdentifyCompanyAffiliations ==
    /\ pc = "classify"
    /\ company_affiliations' \in _identify_company_affiliations(AllAffiliations(authors))
    /\ pc' = "companies"
    /\ UNCHANGED <<authors, non_academic_authors, extractVars, parseVars, mainVars>>

IdentifyNonAcademicAuthors ==
    /\ pc = "companies"
    /\ non_academic_authors' = _identify_non_academic_authors(authors)
    /\ pc' = "classified"
    /\ UNCHANGED <<authors, company_affiliations, extractVars, parseVars, mainVars>>

NextClassify == IdentifyCompanyAffiliations \/ IdentifyNonAcademicAuthors

SpecClassify == InitClassify /\ [][NextClassify]_vars

---------------------------------------------------------------------------
(* SpecDate: _extract_publication_date applied to one article.             *)

InitDate ==
    /\ pc = "date"
    /\ \E present \in SUBSET Range(date_fields) :
         /\ Cardinality(present) <= MaxDateElems
         /\ \E s \in [present -> Shape \X Shape \X Shape] :
              article_elem = [PMID |-> <<"101">>, date |-> DatesOf(present, s),
                              AuthorList |-> <<>>, raises |-> FALSE]
    /\ pub_date = ""
    /\ paper = <<>>
    /\ ClassifyIdle /\ ParseIdle /\ MainIdle

ExtractPublicationDate ==
    /\ pc = "date"
    /\ pub_date' = _extract_publication_date(article_elem)
    /\ pc' = "dated"
    /\ UNCHANGED <<article_elem, paper, classifyVars, parseVars, mainVars>>

NextDate == ExtractPublicationDate

SpecDate == InitDate /\ [][NextDate]_vars

---------------------------------------------------------------------------
(* SpecExtract: _extract_paper_info applied to one article.                *)

InitExtract ==
    /\ pc = "extract"
    /\ \/ article_elem \in {Article("101", <<>>), Raising(ArticlePfizer)}
       \/ \E flat \in SeqsUpTo(RawTexts, MaxAffs) :
            \E sizes \in SeqsUpTo(0..MaxAffs, MaxAuthors) :
               /\ SharesOut(sizes, flat)
               /\ \E kinds \in [DOMAIN sizes -> NameKinds] :
                    article_elem = Article("101", <<AuthorElemsOf(flat, sizes, kinds)>>)
    /\ pub_date = ""
    /\ paper = <<>>
    /\ ClassifyIdle /\ ParseIdle /\ MainIdle

ExtractPaperInfo ==
    /\ pc = "extract"
    /\ paper' \in _extract_paper_info(article_elem)
    /\ pc' = "extracted"
    /\ UNCHANGED <<article_elem, pub_date, classifyVars, parseVars, mainVars>>

NextExtract == ExtractPaperInfo

SpecExtract == InitExtract /\ [][NextExtract]_vars

---------------------------------------------------------------------------
(* SpecParse: _parse_paper_details applied to one response body.           *)

InitParse ==
    /\ pc = "parse"
    /\ xml_content \in ParseInputs
    /\ papers = <<>>
    /\ ClassifyIdle /\ ExtractIdle /\ MainIdle

ParsePaperDetails ==
    /\ pc = "parse"
    /\ papers' \in _parse_paper_details(xml_content)
    /\ pc' = "parsed"
    /\ UNCHANGED <<xml_content, classifyVars, extractVars, mainVars>>

NextParse == ParsePaperDetails

SpecParse == InitParse /\ [][NextParse]_vars

---------------------------------------------------------------------------
(* Spec: main, from the search to its return.                              *)

Init ==
    /\ pc = "search"
    /\ MainIdle
    /\ ClassifyIdle /\ ExtractIdle /\ ParseIdle

\* main, lines 369-374: search_papers, and the return of 1 on no identifier
SearchPapers ==
    /\ pc = "search"
    /\ \E response \in SearchResponses :
         /\ search_response' = <<response>>
         /\ pmids' = search_papers(response)
         /\ IF search_papers(response) = <<>>
            THEN pc' = "exit" /\ exit_code' = <<1>>
            ELSE pc' = "fetch" /\ exit_code' = exit_code
    /\ UNCHANGED <<i, all_papers, requests, responses, sleeps, write_csv_calls, csv_file>>
    /\ UNCHANGED <<classifyVars, extractVars, parseVars>>

\* FetchBatch leaving the loop after a request that raised
FetchBatchAborting ==
    /\ pc = "fetch"
    /\ i < Len(pmids)
    /\ \E response \in FetchResponses :
         \E batch_papers \in _fetch_batch_details(response) :
            /\ requests' = Append(requests, batch_of(pmids, i))
            /\ responses' = Append(responses, response)
            /\ all_papers' = all_papers \o batch_papers
            /\ i' = IF response.error = "none" THEN i + batch_size ELSE Len(pmids)
    /\ sleeps' = IF sleeps_after(i, Len(pmids))
                 THEN Append(sleeps, Len(requests) + 1)
                 ELSE sleeps
    /\ UNCHANGED <<pc, search_response, pmids, write_csv_calls, csv_file, exit_code>>
    /\ UNCHANGED <<classifyVars, extractVars, parseVars>>

\* fetch_paper_details, lines 91-98: one turn of the loop over the batches
FetchBatch ==
    /\ pc = "fetch"
    /\ i < Len(pmids)
    /\ \E response \in FetchResponses :
         \E batch_papers \in _fetch_batch_details(response) :
            /\ requests' = Append(requests, batch_of(pmids, i))
            /\ responses' = Append(responses, response)
            /\ all_papers' = all_papers \o batch_papers
    /\ sleeps' = IF sleeps_after(i, Len(pmids))
                 THEN Append(sleeps, Len(requests) + 1)
                 ELSE sleeps
    /\ i' = i + batch_size
    /\ UNCHANGED <<pc, search_response, pmids, write_csv_calls, csv_file, exit_code>>
    /\ UNCHANGED <<classifyVars, extractVars, parseVars>>

\* ReturnNoDetails returning 0
ReturnNoDetailsAsSuccess ==
    /\ pc = "fetch"
    /\ i >= Len(pmids)
    /\ all_papers = <<>>
    /\ pc' = "exit"
    /\ exit_code' = <<0>>
    /\ UNCHANGED <<search_response, fetchVars, write_csv_calls, csv_file>>
    /\ UNCHANGED <<classifyVars, extractVars, parseVars>>

\* main, lines 377-381: the return of 1 when fetch_paper_details returns []
ReturnNoDetails ==
    /\ pc = "fetch"
    /\ i >= Len(pmids)
    /\ all_papers = <<>>
    /\ pc' = "exit"
    /\ exit_code' = <<1>>
    /\ UNCHANGED <<search_response, fetchVars, write_csv_calls, csv_file>>
    /\ UNCHANGED <<classifyVars, extractVars, parseVars>>

\* FilterAndWrite without the check of lines 379-381 before it
FilterAndWriteUnchecked ==
    /\ pc = "fetch"
    /\ i >= Len(pmids)
    /\ write_csv_calls' = Append(write_csv_calls, filtered(all_papers))
    /\ csv_file' \in write_csv(filtered(all_papers), csv_file)
    /\ pc' = "exit"
    /\ exit_code' = <<0>>
    /\ UNCHANGED <<search_response, fetchVars>>
    /\ UNCHANGED <<classifyVars, extractVars, parseVars>>

\* main, lines 383-393: the filter, write_csv and the return of 0
FilterAndWrite ==
    /\ pc = "fetch"
    /\ i >= Len(pmids)
    /\ all_papers /= <<>>
    /\ write_csv_calls' = Append(write_csv_calls, filtered(all_papers))
    /\ csv_file' \in write_csv(filtered(all_papers), csv_file)
    /\ pc' = "exit"
    /\ exit_code' = <<0>>
    /\ UNCHANGED <<search_response, fetchVars>>
    /\ UNCHANGED <<classifyVars, extractVars, parseVars>>

Next == SearchPapers \/ FetchBatch \/ ReturnNoDetails \/ FilterAndWrite

Spec == Init /\ [][Next]_vars

---------------------------------------------------------------------------
(* The properties checked.  What they say of a text is stated on its       *)
(* characters, not through the str operations the program calls.           *)

\* two characters that are the same letter, whatever their case
SameLetter(a, b) ==
    \/ a = b
    \/ \E k \in 1..Len(UPPER) : {a, b} = {SubSeq(UPPER, k, k), SubSeq(LOWER, k, k)}

\* the text s contains the term t, case ignored
ContainsIgnoringCase(s, t) ==
    \E k \in 1..(Len(s) - Len(t) + 1) :
        \A j \in 1..Len(t) :
            SameLetter(SubSeq(s, k + j - 1, k + j - 1), SubSeq(t, j, j))

DifferOnlyInCase(s, t) ==
    /\ Len(s) = Len(t)
    /\ \A j \in 1..Len(s) : SameLetter(SubSeq(s, j, j), SubSeq(t, j, j))

\* t is s without its leading and trailing whitespace
IsTrimOf(t, s) ==
    \E a \in 1..(Len(s) + 1) : \E b \in (a - 1)..Len(s) :
        /\ t = SubSeq(s, a, b)
        /\ \A j \in (1..(a - 1)) \cup ((b + 1)..Len(s)) : SubSeq(s, j, j) \in WHITESPACE
        /\ t /= "" => /\ SubSeq(t, 1, 1) \notin WHITESPACE
                      /\ SubSeq(t, Len(t), Len(t)) \notin WHITESPACE

Pieces(s) == {SubSeq(s, a, b) : a \in 1..(Len(s) + 1), b \in 0..Len(s)}

\* of each affiliation text of the classifier's inputs: whether it names a
\* reference-set term, whether it names an academic-exclusion term, and the
\* text trimmed
NamesReferenceTerm ==
    [s \in AffTexts |-> \E t \in PHARMA_BIOTECH_COMPANIES : ContainsIgnoringCase(s, t)]

NamesAcademicTerm ==
    [s \in AffTexts |-> \E t \in ACADEMIC_KEYWORDS : ContainsIgnoringCase(s, t)]

Trimmed == [s \in AffTexts |-> CHOOSE t \in Pieces(s) : IsTrimOf(t, s)]

\* an author one of whose affiliations names a reference-set term and no
\* academic-exclusion term
Qualifies(author) ==
    \E k \in DOMAIN author.affiliations :
        /\ NamesReferenceTerm[author.affiliations[k]]
        /\ ~ NamesAcademicTerm[author.affiliations[k]]

NamesOf(l) == [k \in DOMAIN l |-> l[k].name]

\* C4: _identify_non_academic_authors lists an author if and only if one
\* single affiliation of the author names a reference-set term and no
\* academic-exclusion term, and lists the names in author-list order.
C4_NonAcademicAuthorsExactly ==
    pc = "classified" =>
        non_academic_authors = NamesOf(SelectSeq(authors, Qualifies))

\* C4, its case: an author listed thanks to a sibling of an affiliation that
\* names both a reference-set term and an academic-exclusion term, beside
\* an author who is not listed.
C4_Witness ==
    /\ pc = "classified"
    /\ Len(authors) = 2
    /\ non_academic_authors = <<authors[1].name>>
    /\ \E a, b \in DOMAIN authors[1].affiliations :
          /\ NamesReferenceTerm[authors[1].affiliations[a]]
          /\ NamesAcademicTerm[authors[1].affiliations[a]]
          /\ NamesReferenceTerm[authors[1].affiliations[b]]
          /\ ~ NamesAcademicTerm[authors[1].affiliations[b]]

GivenAffiliations == UNION {Range(authors[k].affiliations) : k \in DOMAIN authors}

\* C5: _identify_company_affiliations returns, each exactly once, the
\* trimmed original-case affiliations that name a reference-set term, case
\* ignored, and no other; two affiliations that differ only in letter case
\* are both in or both out.
C5_CompanyAffiliationsExactly ==
    pc \in {"companies", "classified"} =>
        LET expected == {Trimmed[s] : s \in {g \in GivenAffiliations : NamesReferenceTerm[g]}}
        IN  /\ Range(company_affiliations) = expected
            /\ Len(company_affiliations) = Cardinality(expected)
            /\ \A s, t \in GivenAffiliations :
                  DifferOnlyInCase(s, t) =>
                      (Trimmed[s] \in Range(company_affiliations)
                          <=> Trimmed[t] \in Range(company_affiliations))

\* C5, its case: two different affiliations that are the same once trimmed
\* and name a term are returned as one.
C5_Witness ==
    /\ pc = "companies"
    /\ \E s, t \in GivenAffiliations :
          /\ s /= t
          /\ Trimmed[s] = Trimmed[t]
          /\ company_affiliations = <<Trimmed[s]>>

\* C10: a row of _extract_paper_info with a non-academic author has a
\* matched company affiliation, so main's filter keeps the rows whose
\* company column is not empty, and no other.
C10_NonAcademicImpliesCompany ==
    (pc = "extracted" /\ paper /= <<>>) =>
        /\ paper[1].non_academic_authors /= <<>> => paper[1].company_affiliations /= <<>>
        /\ keeps(paper[1]) <=> paper[1].Company_Affiliations /= ""

\* C10, its case: a row with a non-academic author, from an article one of
\* whose Author elements has no last name.
C10_Witness ==
    /\ pc = "extracted"
    /\ paper /= <<>>
    /\ paper[1].non_academic_authors /= <<>>
    /\ article_elem.AuthorList /= <<>>
    /\ \E k \in DOMAIN article_elem.AuthorList[1] :
          article_elem.AuthorList[1][k].LastName = <<>>

\* the identifiers of the articles of a response body whose extraction
\* does not raise, in document order
PmidOf(e) == e.PMID[1]

Extractable(e) == ~ e.raises

RecordIds(content) ==
    IF content.wellformed
    THEN LET good == SelectSeq(content.articles, Extractable)
         IN  [k \in DOMAIN good |-> PmidOf(good[k])]
    ELSE <<>>

PubmedIds(rows) == [k \in DOMAIN rows |-> rows[k].PubmedID]

\* C8: _parse_paper_details returns, in document order, the rows of exactly
\* the articles whose extraction does not raise.
C8_ExtractionFailureDropsOneRecord ==
    pc = "parsed" => PubmedIds(papers) = RecordIds(xml_content)

\* C8, its case: the second of three articles raises, the other two are
\* returned.
C8_Witness ==
    /\ pc = "parsed"
    /\ Len(xml_content.articles) = 3
    /\ ~ xml_content.articles[1].raises
    /\ xml_content.articles[2].raises
    /\ ~ xml_content.articles[3].raises
    /\ PubmedIds(papers) = <<PmidOf(xml_content.articles[1]), PmidOf(xml_content.articles[3])>>

\* a child that is present and has a text
HasText(child) == child /= <<>> /\ child[1] /= ""

\* a date field of the article with a text in one of its children
Dated(f) ==
    /\ article_elem.date[f] /= <<>>
    /\ \/ HasText(article_elem.date[f][1].Year)
       \/ HasText(article_elem.date[f][1].Month)
       \/ HasText(article_elem.date[f][1].Day)

\* the first of the candidate fields that is Dated, when there is one
FirstDated ==
    date_fields[CHOOSE k \in DOMAIN date_fields :
                   /\ Dated(date_fields[k])
                   /\ \A j \in 1..(k - 1) : ~ Dated(date_fields[j])]

\* the texts of field f that have one, joined by hyphens in year, month,
\* day order
PartsJoined(f) ==
    LET e == article_elem.date[f][1]
        y == HasText(e.Year)
        m == HasText(e.Month)
        d == HasText(e.Day)
    IN  CASE y /\ m /\ d -> e.Year[1] \o "-" \o e.Month[1] \o "-" \o e.Day[1]
          [] y /\ m /\ ~d -> e.Year[1] \o "-" \o e.Month[1]
          [] y /\ ~m /\ d -> e.Year[1] \o "-" \o e.Day[1]
          [] y /\ ~m /\ ~d -> e.Year[1]
          [] ~y /\ m /\ d -> e.Month[1] \o "-" \o e.Day[1]
          [] ~y /\ m /\ ~d -> e.Month[1]
          [] OTHER -> e.Day[1]

\* C9 as amended: _extract_publication_date returns "" when no candidate
\* field has a child with a text, and otherwise the texts of the first such
\* field, joined by hyphens in year, month, day order, every child without
\* a text left out, trailing or not.
C9_DateJoinsThePartsPresent ==
    pc = "dated" =>
        IF \E k \in DOMAIN date_fields : Dated(date_fields[k])
        THEN pub_date = PartsJoined(FirstDated)
        ELSE pub_date = ""

\* C9 as claimed: the value is "" or has the form Y, Y-M or Y-M-D of the
\* first candidate field with a sub-component.
C9_DateHasFormYMD ==
    pc = "dated" =>
        \/ pub_date = ""
        \/ /\ \E k \in DOMAIN date_fields : Dated(date_fields[k])
           /\ LET e == article_elem.date[FirstDated][1]
              IN  /\ HasText(e.Year)
                  /\ \/ pub_date = e.Year[1]
                     \/ HasText(e.Month) /\ pub_date = e.Year[1] \o "-" \o e.Month[1]
                     \/ /\ HasText(e.Month) /\ HasText(e.Day)
                        /\ pub_date = e.Year[1] \o "-" \o e.Month[1] \o "-" \o e.Day[1]

\* C9, its case: the publication date has no text, and the article date,
\* with a month and a day and no year, gives the value.
C9_Witness ==
    /\ pc = "dated"
    /\ article_elem.date["PubDate"] /= <<>>
    /\ ~ Dated("PubDate")
    /\ Dated("ArticleDate")
    /\ article_elem.date["ArticleDate"][1].Year = <<>>
    /\ pub_date = MonthText["ArticleDate"] \o "-" \o DayText["ArticleDate"]

\* a row with a matched company affiliation or a non-academic author
Flagged(row) == row.company_affiliations /= <<>> \/ row.non_academic_authors /= <<>>

\* C1: the rows main hands to write_csv are exactly the rows with a matched
\* company affiliation or a non-academic author, in order.
C1_FilterKeepsExactlyTheFlagged ==
    write_csv_calls /= <<>> =>
        /\ Len(write_csv_calls) = 1
        /\ write_csv_calls[1] = SelectSeq(all_papers, Flagged)

\* C1, its case: a row with a company affiliation and no non-academic
\* author is kept and a row with neither is dropped.
C1_Witness ==
    /\ write_csv_calls /= <<>>
    /\ \E k \in DOMAIN write_csv_calls[1] :
          /\ write_csv_calls[1][k].company_affiliations /= <<>>
          /\ write_csv_calls[1][k].non_academic_authors = <<>>
    /\ \E k \in DOMAIN all_papers : ~ Flagged(all_papers[k])

IsPrefix(s, t) == Len(s) <= Len(t) /\ s = SubSeq(t, 1, Len(s))

\* C2 as amended: when main returns 0 the search gave an identifier, the
\* detail step gave a row and write_csv was called once; the file holds
\* only rows of that call, and none when the call had no row.
C2_ExitZeroMeansWriteCsvCalled ==
    exit_code = <<0>> =>
        /\ pmids /= <<>>
        /\ all_papers /= <<>>
        /\ Len(write_csv_calls) = 1
        /\ csv_file /= <<>> =>
              /\ write_csv_calls[1] /= <<>>
              /\ IsPrefix(csv_file[1], write_csv_calls[1])

\* C2 as claimed: when main returns 0 the output file is written and holds
\* at least one data row.
C2_ExitZeroMeansFileHasRow ==
    exit_code = <<0>> => (csv_file /= <<>> /\ Len(csv_file[1]) >= 1)

\* C2, its case: main returns 0 although no row passed the filter and no
\* file is written.
C2_Witness ==
    /\ exit_code = <<0>>
    /\ write_csv_calls = << <<>> >>
    /\ csv_file = <<>>

\* the identifiers of the rows a fetch response gives
ResponseRecordIds(response) ==
    IF response.error = "none" THEN RecordIds(response.content) ELSE <<>>

\* C3: main returns 1, without calling write_csv and without writing the
\* file, when the search fails or gives no identifier and when no batch
\* gives a row.
C3_ExitOneWithoutIdsOrRecords ==
    (/\ pc = "exit"
     /\ \/ search_response[1].error /= "none"
        \/ search_response[1].ids = <<>>
        \/ \A k \in DOMAIN responses : ResponseRecordIds(responses[k]) = <<>>)
    => /\ exit_code = <<1>>
       /\ write_csv_calls = <<>>
       /\ csv_file = <<>>

\* C3, its case: three batches, one request failing, one body not parsing,
\* one body with an article whose extraction raises.
C3_Witness ==
    /\ pc = "exit"
    /\ exit_code = <<1>>
    /\ Len(responses) = 3
    /\ responses[1].error = "RequestException"
    /\ responses[2].error = "none" /\ ~ responses[2].content.wellformed
    /\ responses[3].error = "none" /\ Len(responses[3].content.articles) = 1

\* the loop of fetch_paper_details has ended
FetchDone == pc \in {"fetch", "exit"} /\ pmids /= <<>> /\ i >= Len(pmids)

RECURSIVE Concat(_)
Concat(seqs) == IF seqs = <<>> THEN <<>> ELSE Head(seqs) \o Concat(Tail(seqs))

\* C6: n > 0 identifiers are requested in ceil(n/200) batches that
\* concatenate to the identifier list, all of 200 but the last, which has
\* 1 to 200, with a pause after each batch but the last.
C6_BatchesOf200WithPausesBetween ==
    FetchDone =>
        LET n == Len(pmids)
            b == Len(requests)
        IN  /\ b = (n + 199) \div 200
            /\ Concat(requests) = pmids
            /\ \A k \in 1..(b - 1) : Len(requests[k]) = 200
            /\ Len(requests[b]) \in 1..200
            /\ sleeps = [k \in 1..(b - 1) |-> k]

\* C6, its case: 450 identifiers, batches of 200, 200 and 50, two pauses.
C6_Witness ==
    /\ FetchDone
    /\ Len(pmids) = 450
    /\ [k \in DOMAIN requests |-> Len(requests[k])] = <<200, 200, 50>>
    /\ sleeps = <<1, 2>>

\* C7: the requests made are the batches, each once and in order, whatever
\* the earlier requests met, and the rows returned are those of the batches
\* that succeeded, in order.
C7_FailedBatchGivesNothingAndLoopGoesOn ==
    FetchDone =>
        /\ Len(responses) = Len(requests)
        /\ Len(requests) = (Len(pmids) + 199) \div 200
        /\ \A k \in DOMAIN requests :
              requests[k] = [j \in 1..Min(200, Len(pmids) - 200 * (k - 1)) |->
                                pmids[200 * (k - 1) + j]]
        /\ PubmedIds(all_papers)
              = Concat([k \in DOMAIN responses |-> ResponseRecordIds(responses[k])])

\* C7, its case: of three batches the second fails and the rows of the
\* first and the third are returned.
C7_Witness ==
    /\ FetchDone
    /\ Len(responses) = 3
    /\ ResponseRecordIds(responses[1]) /= <<>>
    /\ responses[2].error = "RequestException"
    /\ ResponseRecordIds(responses[3]) /= <<>>
    /\ Len(all_papers) = 2

=============================================================================
